---------------------------- MODULE Spec2Model ----------------------------
(***************************************************************************)
(* A model of c3voc_calendar.py: the ColourWheel, the resource registry,   *)
(* the remote feed loader, the schedule builder and main with the process  *)
(* exit.  Python strings that the code inspects character by character     *)
(* (case names, date texts) are sequences of one-character strings.        *)
(***************************************************************************)
EXTENDS Integers, Sequences, FiniteSets, TLC

VARIABLES
    list_iterator,   \* ColourWheel.list_iterator of each wheel: index of the next entry
    drawn,           \* per wheel, the values its __next__ has returned so far
    wheel_raised,    \* TRUE once a __next__ has let an exception escape
    resources,       \* C3VOCCalendar.resources: name -> gantt.Resource object
    next_object,     \* identity given to the next gantt.Resource constructed
    registered,      \* the create_unique_gantt_resource calls made, with the object held after each
    lookups,         \* the registry lookups made by retrieve_resources_for_event, each with
                     \* the number of registrations made before it
    pc,              \* position of the run
    arguments,       \* the parsed command line
    today,           \* datetime.date.today()
    source,          \* what the selected loader was given by the outside world
    reads,           \* the fields of source events that load_json_url has read
    calendar,        \* C3VOCCalendar.calendar: ordered map event name -> event details
    loaded,          \* what the selected loader returned
    gantt_project,   \* the project: whether it was created, and its task list
    event_index,     \* events of the calendar already handled by create_calendar
    svg_written,     \* whether make_svg_for_resources was called
    result,          \* what main returned
    exit_status      \* the status the process exited with

wheelVars == <<list_iterator, drawn, wheel_raised>>
registryVars == <<resources, next_object, registered, lookups>>
runVars == <<pc, arguments, today, source, reads, calendar, loaded, gantt_project,
             event_index, svg_written, result, exit_status>>
vars == <<wheelVars, registryVars, runVars>>

----------------------------------------------------------------------------
(* Bounds of the model *)

MaxDraws == 22
MaxCalls == 4
MaxFeedEvents == 2
MaxEvents == 2
LongLen == 22

----------------------------------------------------------------------------
(* Python strings as sequences of characters *)

Lowercase == <<"a","b","c","d","e","f","g","h","i","j","k","l","m",
               "n","o","p","q","r","s","t","u","v","w","x","y","z">>
Uppercase == <<"A","B","C","D","E","F","G","H","I","J","K","L","M",
               "N","O","P","Q","R","S","T","U","V","W","X","Y","Z">>

\* str.upper() on one character
UpperChar(c) ==
    IF \E i \in 1..Len(Lowercase) : Lowercase[i] = c
    THEN Uppercase[CHOOSE i \in 1..Len(Lowercase) : Lowercase[i] = c]
    ELSE c

\* str.upper()
Upper(s) == [i \in 1..Len(s) |-> UpperChar(s[i])]

Digits == <<"0","1","2","3","4","5","6","7","8","9">>

IsDigit(c) == \E i \in 1..10 : Digits[i] = c

DigitValue(c) == (CHOOSE i \in 1..10 : Digits[i] = c) - 1

RECURSIVE NumberValue(_)
NumberValue(s) ==
    IF s = <<>> THEN 0
    ELSE 10 * NumberValue(SubSeq(s, 1, Len(s) - 1)) + DigitValue(s[Len(s)])

----------------------------------------------------------------------------
(* datetime.date *)

IsLeap(y) == (y % 4 = 0) /\ ((y % 100 # 0) \/ (y % 400 = 0))

DaysInMonth(y, m) ==
    IF m = 2 THEN (IF IsLeap(y) THEN 29 ELSE 28)
    ELSE IF m \in {4, 6, 9, 11} THEN 30 ELSE 31

Date(y, m, d) == [year |-> y, month |-> m, day |-> d]

RECURSIVE DaysBeforeMonth(_, _)
DaysBeforeMonth(y, m) ==
    IF m = 1 THEN 0 ELSE DaysBeforeMonth(y, m - 1) + DaysInMonth(y, m - 1)

\* date.toordinal()
ToOrdinal(dt) ==
    LET y == dt.year - 1
    IN  y * 365 + (y \div 4) - (y \div 100) + (y \div 400)
          + DaysBeforeMonth(dt.year, dt.month) + dt.day

\* (end - start).days
DaysBetween(start, end) == ToOrdinal(end) - ToOrdinal(start)

\* date >= date
DateGE(a, b) ==
    \/ a.year > b.year
    \/ a.year = b.year /\ a.month > b.month
    \/ a.year = b.year /\ a.month = b.month /\ a.day >= b.day

\* date.replace(month=m): ValueError when the day does not exist in that month
ReplaceMonth(dt, m) == Date(dt.year, m, dt.day)

ReplaceDay(dt, d) == Date(dt.year, dt.month, d)

\* today.replace(month=1).replace(day=1)
FirstOfTheYear(dt) == ReplaceDay(ReplaceMonth(dt, 1), 1)

\* The positions of "-" in a text
Dashes(s) == {i \in 1..Len(s) : s[i] = "-"}

AllDigits(s) == \A i \in 1..Len(s) : IsDigit(s[i])

\* datetime.datetime.strptime(text, "%Y-%m-%d").date(): four digits of year, one or
\* two digits of month (1..12) and of day (1..31, and a day of that month)
StrpTime(text) ==
    IF Cardinality(Dashes(text)) # 2 THEN [ok |-> FALSE, date |-> Date(0, 0, 0)]
    ELSE
      LET d1 == CHOOSE i \in Dashes(text) : \A j \in Dashes(text) : i <= j
          d2 == CHOOSE i \in Dashes(text) : \A j \in Dashes(text) : i >= j
          ys == SubSeq(text, 1, d1 - 1)
          ms == SubSeq(text, d1 + 1, d2 - 1)
          ds == SubSeq(text, d2 + 1, Len(text))
          wellFormed == /\ Len(ys) = 4 /\ AllDigits(ys)
                        /\ Len(ms) \in {1, 2} /\ AllDigits(ms)
                        /\ Len(ds) \in {1, 2} /\ AllDigits(ds)
          y == NumberValue(ys)
          m == NumberValue(ms)
          d == NumberValue(ds)
      IN  IF wellFormed /\ y >= 1 /\ m \in 1..12 /\ d \in 1..DaysInMonth(y, m)
          THEN [ok |-> TRUE, date |-> Date(y, m, d)]
          ELSE [ok |-> FALSE, date |-> Date(0, 0, 0)]

----------------------------------------------------------------------------
(* ColourWheel *)

colours == <<"#28C3AB", "#28C3A9", "#386FC8", "#FFB534", "#FF8634", "#78E1D0",
             "#83A8E3", "#FFD488", "#FFB888", "#4AD1BA", "#5888D4", "#FFC35B",
             "#FF9D5B", "#04B799", "#1556BC", "#FFA506", "#FF6B06", "#008A73",
             "#DA8B00", "#DA5800">>

\* iter(self.colours)
NewListIterator == 0

\* next(self.list_iterator): the next entry, or StopIteration at the end
ListIteratorNext(it) ==
    IF it < Len(colours)
    THEN [stop |-> FALSE, colour |-> colours[it + 1], it |-> it + 1]
    ELSE [stop |-> TRUE, colour |-> "", it |-> it]

\* A restart that forgets to step past the entry it returns
ColourWheelNextStuck(it) ==
    LET first == ListIteratorNext(it)
    IN  IF ~first.stop
        THEN [raised |-> FALSE, colour |-> first.colour, it |-> first.it]
        ELSE [raised |-> FALSE, colour |-> colours[1], it |-> it]

\* ColourWheel.__next__
ColourWheelNext(it) ==
    LET first == ListIteratorNext(it)
        again == ListIteratorNext(NewListIterator)
    IN  IF ~first.stop
        THEN [raised |-> FALSE, colour |-> first.colour, it |-> first.it]
        ELSE IF ~again.stop
        THEN [raised |-> FALSE, colour |-> again.colour, it |-> again.it]
        ELSE [raised |-> TRUE, colour |-> "", it |-> again.it]

Wheels == {1, 2}


----------------------------------------------------------------------------
(* The resource registry *)

\* An empty Python dict
EmptyDict == [n \in {} |-> 0]

\* gantt.Resource(resource_name): a new object, told apart by its identity
NewResource(resource_name, identity) == [name |-> resource_name, id |-> identity]

\* A registry: the resources map, the identity of the next object, the calls made
Registry(res, nxt, log) == [resources |-> res, next_object |-> nxt, registered |-> log]

\* C3VOCCalendar.is_resource_known
IsResourceKnown(res, resource_name) == resource_name \in DOMAIN res

\* dict[key] = value
DictAssign(d, key, value) ==
    [k \in DOMAIN d \cup {key} |-> IF k = key THEN value ELSE d[k]]

\* A registration that forgets the is_resource_known test
CreateAlwaysGanttResource(reg, resource_name) ==
    LET res == DictAssign(reg.resources, resource_name,
                          NewResource(resource_name, reg.next_object))
    IN  Registry(res, reg.next_object + 1,
                 Append(reg.registered, [name |-> resource_name, object |-> res[resource_name]]))

\* C3VOCCalendar.create_unique_gantt_resource
CreateUniqueGanttResource(reg, resource_name) ==
    LET res == IF ~IsResourceKnown(reg.resources, resource_name)
               THEN DictAssign(reg.resources, resource_name,
                               NewResource(resource_name, reg.next_object))
               ELSE reg.resources
        nxt == IF ~IsResourceKnown(reg.resources, resource_name)
               THEN reg.next_object + 1
               ELSE reg.next_object
    IN  Registry(res, nxt,
                 Append(reg.registered, [name |-> resource_name, object |-> res[resource_name]]))

\* The resource names the registry is exercised with
S1 == <<"S", "1">>
S2 == <<"S", "2">>
A1 == <<"A", "1">>
A2 == <<"A", "2">>
RegistryNames == {S1, S2, A1, <<"F", "O", "O">>}

----------------------------------------------------------------------------
(* Command line arguments *)

\* An option that was not given: argparse leaves None
None == [given |-> FALSE, value |-> ""]

\* An option given with a value
Str(v) == [given |-> TRUE, value |-> v]

\* Python truth of an option's value: None and "" are false
Truthy(a) == a.given /\ a.value # ""

ArgumentSets ==
    [calendar_yaml_file : {None, Str(""), Str("calendar.yaml")},
     calendar_json_url  : {None, Str(""), Str("https://c3voc.de/eventkalender/events.json")},
     calendar_svg_file  : {None, Str("calendar.svg")}]

Todays == {Date(2023, 6, 15), Date(2024, 2, 29)}

\* The name of the i-th event of a source
EventName(i) == "event" \o ToString(i)

----------------------------------------------------------------------------
(* States before anything ran *)

WheelIdle ==
    /\ list_iterator = [w \in Wheels |-> NewListIterator]
    /\ drawn = [w \in Wheels |-> <<>>]
    /\ wheel_raised = FALSE

RegistryIdle ==
    /\ resources = EmptyDict
    /\ next_object = 1
    /\ registered = <<>>
    /\ lookups = <<>>

RunIdle ==
    /\ pc = "start"
    /\ source = [kind |-> "none"]
    /\ reads = {}
    /\ calendar = <<>>
    /\ loaded = [by |-> "none", ret |-> FALSE, error |-> "none", error_at |-> 0,
                 propagated |-> FALSE, generate_output |-> FALSE]
    /\ gantt_project = [created |-> FALSE, tasks |-> <<>>]
    /\ event_index = 0
    /\ svg_written = FALSE
    /\ result = FALSE
    /\ exit_status = -1

----------------------------------------------------------------------------
(* The colour wheel on its own: two instances, drawn from in any order *)

\* A component exercised outside a run of main: nothing was loaded or built
InitComponent ==
    /\ WheelIdle /\ RegistryIdle /\ RunIdle
    /\ arguments = [calendar_yaml_file |-> None, calendar_json_url |-> None,
                    calendar_svg_file |-> None]
    /\ today = Date(2023, 6, 15)

\* next(wheel) on the wheel w
WheelDraw(w) ==
    /\ Len(drawn[w]) < MaxDraws
    /\ ~wheel_raised
    /\ \E r \in {ColourWheelNext(list_iterator[w])} :
           /\ list_iterator' = [list_iterator EXCEPT ![w] = r.it]
           /\ drawn' = [drawn EXCEPT ![w] = IF r.raised THEN @ ELSE Append(@, r.colour)]
           /\ wheel_raised' = r.raised
    /\ UNCHANGED <<registryVars, runVars>>

NextWheel == \E w \in Wheels : WheelDraw(w)

SpecWheel == InitComponent /\ [][NextWheel]_vars

\* C1: on every wheel the i-th draw (from 0) is colours[i mod 20], whatever was drawn
\* from the other wheel in between, and no draw raises.
C1_DrawsFollowPalette ==
    /\ ~wheel_raised
    /\ \A w \in Wheels : \A i \in 1..Len(drawn[w]) :
          drawn[w][i] = colours[((i - 1) % 20) + 1]

\* Wheel 1 has wrapped around (more than 20 draws) while wheel 2 is elsewhere in the palette
C1_Witness ==
    /\ Len(drawn[1]) = 22
    /\ Len(drawn[2]) = 3
    /\ drawn[1][21] = "#28C3AB"
    /\ drawn[1][22] = "#28C3A9"

----------------------------------------------------------------------------
(* The registry on its own: registrations of any names in any order *)

\* create_unique_gantt_resource(resource_name), called from outside
Register(resource_name) ==
    /\ Len(registered) < MaxCalls
    /\ \E reg \in {CreateUniqueGanttResource(Registry(resources, next_object, registered),
                                             resource_name)} :
           /\ resources' = reg.resources
           /\ next_object' = reg.next_object
           /\ registered' = reg.registered
    /\ UNCHANGED <<lookups, wheelVars, runVars>>

NextRegistry == \E n \in RegistryNames : Register(n)

SpecRegistry == InitComponent /\ [][NextRegistry]_vars

\* C2: the registry holds exactly the names ever registered; the object a registration
\* left under a name is the object still stored under it (a later registration of the name
\* changed nothing); different names hold objects of different identity.
C2_RegistryExact ==
    /\ DOMAIN resources = {registered[i].name : i \in 1..Len(registered)}
    /\ \A i \in 1..Len(registered) :
          registered[i].object.id = resources[registered[i].name].id
    /\ \A n, m \in DOMAIN resources : n # m => resources[n].id # resources[m].id
    /\ \A n \in DOMAIN resources : resources[n].name = n

\* A name registered twice, another name registered in between
C2_Witness ==
    /\ Len(registered) >= 3
    /\ registered[1].name = S1
    /\ registered[2].name = A1
    /\ registered[3].name = S1
    /\ Cardinality(DOMAIN resources) = 2

----------------------------------------------------------------------------
(* load_json_url *)

\* An ordered Python dict as a sequence of [name, details] entries with distinct names
DictNames(d) == {d[i].name : i \in 1..Len(d)}

\* d[name] = details on an ordered dict: in place for a known name, appended otherwise
OrderedAssign(d, name, details) ==
    IF name \in DictNames(d)
    THEN [i \in 1..Len(d) |-> IF d[i].name = name
                               THEN [name |-> name, details |-> details] ELSE d[i]]
    ELSE Append(d, [name |-> name, details |-> details])

RoomDigits == {<<"1">>, <<"2">>, <<"3">>, <<"4">>, <<"5">>, <<"6">>, <<"7">>, <<"8">>}

\* A classification that takes every case starting with a digit 1..8 for a room number
RECURSIVE ClassifyCasesByPrefix(_, _, _, _)
ClassifyCasesByPrefix(cases, i, room_cases, audio_cases) ==
    IF i > Len(cases)
    THEN [error |-> "none", room_cases |-> room_cases, audio_cases |-> audio_cases]
    ELSE LET case == cases[i]
         IN  IF case = <<>>
             THEN [error |-> "IndexError", room_cases |-> room_cases, audio_cases |-> audio_cases]
             ELSE IF <<case[1]>> \in RoomDigits
             THEN ClassifyCasesByPrefix(cases, i + 1, Append(room_cases, <<"S">> \o case), audio_cases)
             ELSE IF case[1] = "A"
             THEN ClassifyCasesByPrefix(cases, i + 1, room_cases, Append(audio_cases, Upper(case)))
             ELSE ClassifyCasesByPrefix(cases, i + 1, Append(room_cases, Upper(case)), audio_cases)

\* The loop over source_event["cases"], from its i-th entry on; case[0] of an empty
\* string is an IndexError
RECURSIVE ClassifyCases(_, _, _, _)
ClassifyCases(cases, i, room_cases, audio_cases) ==
    IF i > Len(cases)
    THEN [error |-> "none", room_cases |-> room_cases, audio_cases |-> audio_cases]
    ELSE LET case == cases[i]
         IN  IF case \in RoomDigits
             THEN ClassifyCases(cases, i + 1, Append(room_cases, <<"S">> \o case), audio_cases)
             ELSE IF case = <<>>
             THEN [error |-> "IndexError", room_cases |-> room_cases, audio_cases |-> audio_cases]
             ELSE IF case[1] = "A"
             THEN ClassifyCases(cases, i + 1, room_cases, Append(audio_cases, Upper(case)))
             ELSE ClassifyCases(cases, i + 1, Append(room_cases, Upper(case)), audio_cases)

\* A year filter that drops the first day of the year
AfterFirstOfTheYear(event_date, day) ==
    DateGE(event_date, FirstOfTheYear(day)) /\ event_date # FirstOfTheYear(day)

\* event_date >= first_of_the_year
OnOrAfterFirstOfTheYear(event_date, day) == DateGE(event_date, FirstOfTheYear(day))

\* The outcome of handling one source event: the calendar, the fields read, the error
Handled(cal, rd, err) == [calendar |-> cal, reads |-> rd, error |-> err]

\* The body of the loop over events["voc_events"].items() for one source event
LoadSourceEvent(cal, rd, source_name, source_event, day) ==
    LET rd1 == rd \cup {<<source_name, "start_date">>}
        rd2 == rd1 \cup {<<source_name, "end_date">>}
        rd3 == rd2 \cup {<<source_name, "cases">>}
    IN  IF "start_date" \notin DOMAIN source_event THEN Handled(cal, rd1, "KeyError")
        ELSE LET start == StrpTime(source_event.start_date)
        IN  IF ~start.ok THEN Handled(cal, rd1, "ValueError")
        ELSE IF ~OnOrAfterFirstOfTheYear(start.date, day) THEN Handled(cal, rd1, "none")
        ELSE IF "end_date" \notin DOMAIN source_event THEN Handled(cal, rd2, "KeyError")
        ELSE LET end == StrpTime(source_event.end_date)
        IN  IF ~end.ok THEN Handled(cal, rd2, "ValueError")
        ELSE IF "cases" \notin DOMAIN source_event THEN Handled(cal, rd3, "KeyError")
        ELSE LET sorted == ClassifyCases(source_event.cases, 1, <<>>, <<>>)
        IN  IF sorted.error # "none" THEN Handled(cal, rd3, sorted.error)
        ELSE Handled(OrderedAssign(cal, source_name,
                                    [start |-> start.date, end |-> end.date,
                                     room_cases |-> sorted.room_cases,
                                     audio_cases |-> sorted.audio_cases]),
                     rd3, "none")

RECURSIVE LoadSourceEvents(_, _, _, _, _)

\* After the i-th source event was handled with outcome h: an error ends the loop
LoadNextSourceEvents(h, voc_events, i, day) ==
    IF h.error # "none"
    THEN [calendar |-> h.calendar, reads |-> h.reads, error |-> h.error, error_at |-> i]
    ELSE LoadSourceEvents(h.calendar, h.reads, voc_events, i + 1, day)

\* The loop over events["voc_events"].items(), from the i-th event on
LoadSourceEvents(cal, rd, voc_events, i, day) ==
    IF i > Len(voc_events)
    THEN [calendar |-> cal, reads |-> rd, error |-> "none", error_at |-> 0]
    ELSE LoadNextSourceEvents(
             LoadSourceEvent(cal, rd, voc_events[i].name, voc_events[i].event, day),
             voc_events, i, day)

\* The classes the loader's "except Exception" clause catches
ExceptionClasses == {"URLError", "JSONDecodeError", "KeyError", "ValueError", "IndexError"}

\* A success test that does not look for a surviving event
AlwaysSuccess(cal) == TRUE

\* len(self.calendar) > 0
CalendarNotEmpty(cal) == Len(cal) > 0

\* The try block of load_json_url up to the end of the loop: what was raised, and where
LoadJsonUrlTry(cal, src, day) ==
    IF src.kind = "urlerror"
    THEN [calendar |-> cal, reads |-> {}, error |-> "URLError", error_at |-> 0]
    ELSE IF src.kind = "jsonerror"
    THEN [calendar |-> cal, reads |-> {}, error |-> "JSONDecodeError", error_at |-> 0]
    ELSE IF "voc_events" \notin DOMAIN src.doc
    THEN [calendar |-> cal, reads |-> {}, error |-> "KeyError", error_at |-> 0]
    ELSE LoadSourceEvents(cal, {}, src.doc.voc_events, 1, day)

\* The end of load_json_url after its try block ended as t: an exception of a caught
\* class is printed and False returned; without one, True when the calendar is not empty
LoadJsonUrlEnd(t) ==
    [calendar |-> t.calendar, reads |-> t.reads, error |-> t.error, error_at |-> t.error_at,
     propagated |-> t.error # "none" /\ t.error \notin ExceptionClasses,
     ret |-> t.error = "none" /\ CalendarNotEmpty(t.calendar)]

\* C3VOCCalendar.load_json_url: its return value, the calendar it leaves, and whether an
\* exception left the function
LoadJsonUrlReturn(cal, src, day) == LoadJsonUrlEnd(LoadJsonUrlTry(cal, src, day))

----------------------------------------------------------------------------
(* The schedule builder *)

\* The names under a key of the event details, none when the key is absent
RoomCasesOf(event_details) ==
    IF "room_cases" \in DOMAIN event_details THEN event_details.room_cases ELSE <<>>

AudioCasesOf(event_details) ==
    IF "audio_cases" \in DOMAIN event_details THEN event_details.audio_cases ELSE <<>>

\* for name in names: self.create_unique_gantt_resource(name), from the i-th name on
RECURSIVE CreateEach(_, _, _)
CreateEach(reg, names, i) ==
    IF i > Len(names) THEN reg
    ELSE CreateEach(CreateUniqueGanttResource(reg, names[i]), names, i + 1)

\* A registration pass that forgets the audio cases
CreateRoomResourcesOnly(reg, event_details) ==
    CreateEach(reg, RoomCasesOf(event_details), 1)

\* C3VOCCalendar.create_resourses_from_event
CreateResourcesFromEvent(reg, event_details) ==
    CreateEach(CreateEach(reg, RoomCasesOf(event_details), 1),
               AudioCasesOf(event_details), 1)

\* for name in names: necessary_resources.append(self.resources[name]), from the i-th
\* name on; self.resources[name] of an unknown name is a KeyError
RECURSIVE RetrieveEach(_, _, _, _, _)
RetrieveEach(res, names, i, necessary_resources, log) ==
    IF i > Len(names)
    THEN [error |-> "none", necessary_resources |-> necessary_resources, lookups |-> log]
    ELSE IF names[i] \notin DOMAIN res
    THEN [error |-> "KeyError", necessary_resources |-> necessary_resources,
          lookups |-> Append(log, [name |-> names[i], hit |-> FALSE])]
    ELSE RetrieveEach(res, names, i + 1, Append(necessary_resources, res[names[i]]),
                      Append(log, [name |-> names[i], hit |-> TRUE]))

\* The second loop of retrieve_resources_for_event, after the first ended as rooms
RetrieveAudioAfter(rooms, res, event_details) ==
    IF rooms.error # "none" THEN rooms
    ELSE RetrieveEach(res, AudioCasesOf(event_details), 1,
                      rooms.necessary_resources, rooms.lookups)

\* C3VOCCalendar.retrieve_resources_for_event
RetrieveResourcesForEvent(res, event_details) ==
    RetrieveAudioAfter(RetrieveEach(res, RoomCasesOf(event_details), 1, <<>>, <<>>),
                       res, event_details)

\* gantt.Task(name, start, duration, resources, color)
Task(name, start, duration, res, color) ==
    [name |-> name, start |-> start, duration |-> duration, resources |-> res, color |-> color]

NoTask == Task("", Date(0, 0, 0), 0, <<>>, "")

\* The task of an event of the given length whose resources were retrieved as found
MadeTask(found, event_name, start_date, days, colour) ==
    [error |-> found.error, lookups |-> found.lookups,
     task |-> IF found.error = "none"
              THEN Task(event_name, start_date, days, found.necessary_resources, colour)
              ELSE NoTask]

\* A task whose length is the difference of the days of the month
CreateEventAsGanttTaskByDayOfMonth(res, event_name, event_details, colour) ==
    IF "start" \notin DOMAIN event_details \/ "end" \notin DOMAIN event_details
    THEN [error |-> "KeyError", task |-> NoTask, lookups |-> <<>>]
    ELSE MadeTask(RetrieveResourcesForEvent(res, event_details), event_name,
                  event_details.start,
                  event_details.end.day - event_details.start.day, colour)

\* C3VOCCalendar.create_event_as_gantt_task: event_details['start'] and ['end'] are
\* read first (a KeyError when absent), then the resources retrieved
CreateEventAsGanttTask(res, event_name, event_details, colour) ==
    IF "start" \notin DOMAIN event_details \/ "end" \notin DOMAIN event_details
    THEN [error |-> "KeyError", task |-> NoTask, lookups |-> <<>>]
    ELSE MadeTask(RetrieveResourcesForEvent(res, event_details), event_name,
                  event_details.start,
                  DaysBetween(event_details.start, event_details.end), colour)

----------------------------------------------------------------------------
(* main and the process exit *)

\* Reading the file first only when no URL was given
SelectedLoaderUrlFirst(args) ==
    IF Truthy(args.calendar_json_url) THEN "url"
    ELSE IF Truthy(args.calendar_yaml_file) THEN "yaml"
    ELSE "none"

\* The if / elif / else of main over the arguments
SelectedLoader(args) ==
    IF Truthy(args.calendar_yaml_file) THEN "yaml"
    ELSE IF Truthy(args.calendar_json_url) THEN "url"
    ELSE "none"

\* Output generated whatever the loader returned
GenerateOutputAlways(loader_returned) == TRUE

\* generate_output after the loader returned
GenerateOutput(loader_returned) == loader_returned

\* C3VOCCalendar.load_yaml_file: its return value and the calendar it leaves
LoadYamlFileReturn(cal, src) ==
    IF src.kind = "yaml"
    THEN [calendar |-> src.data, ret |-> TRUE]
    ELSE [calendar |-> cal, ret |-> FALSE]

\* exit(result) with a bool: True is the integer 1, False the integer 0
ExitStatus(main_returned) == IF main_returned THEN 1 ELSE 0

\* The exit status of a process that ends with an uncaught exception
UncaughtExitStatus == 1

----------------------------------------------------------------------------
(* What the outside world can hand to a run *)

\* Events of a local file, in final form; keys may be absent
YamlEvents ==
    { [start |-> Date(2024, 6, 1), end |-> Date(2024, 6, 4),
       room_cases |-> <<S1>>, audio_cases |-> <<A1>>],
      [start |-> Date(2024, 2, 28), end |-> Date(2024, 3, 1),
       room_cases |-> <<S1, S2, S1>>],
      [start |-> Date(2023, 12, 30), end |-> Date(2024, 1, 2),
       audio_cases |-> <<A1, A2>>],
      [start |-> Date(2024, 9, 9), end |-> Date(2024, 9, 9)],
      [start |-> Date(2024, 6, 1), room_cases |-> <<S2>>] }

\* The events a long calendar cycles through
LongEvents ==
    << [start |-> Date(2024, 6, 1), end |-> Date(2024, 6, 4),
        room_cases |-> <<S1>>, audio_cases |-> <<A1>>],
       [start |-> Date(2024, 2, 28), end |-> Date(2024, 3, 1),
        room_cases |-> <<S1, S2, S1>>],
       [start |-> Date(2023, 12, 30), end |-> Date(2024, 1, 2),
        audio_cases |-> <<A1, A2>>] >>

\* The ordered map of a file whose i-th event has the i-th details
CalendarOf(details) ==
    [i \in 1..Len(details) |-> [name |-> EventName(i), details |-> details[i]]]

LongCalendar ==
    CalendarOf([i \in 1..LongLen |-> LongEvents[((i - 1) % Len(LongEvents)) + 1]])

YamlCalendars ==
    {CalendarOf(ds) : ds \in UNION {[1..n -> YamlEvents] : n \in 0..MaxEvents}}
      \cup {LongCalendar}

\* open() failing, yaml.safe_load failing, or the parsed mapping
YamlSources ==
    {[kind |-> "oserror"], [kind |-> "yamlerror"]}
      \cup {[kind |-> "yaml", data |-> c] : c \in YamlCalendars}

\* Source events of a feed; fields may be absent or malformed
SourceEvents ==
    { [start_date |-> <<"2", "0", "2", "3", "-", "0", "1", "-", "0", "1">>,
       end_date |-> <<"2", "0", "2", "3", "-", "0", "1", "-", "0", "3">>,
       cases |-> <<<<"3">>, <<"A", "1">>, <<"f", "o", "o">>>>],
      [start_date |-> <<"2", "0", "2", "2", "-", "1", "2", "-", "3", "1">>,
       end_date |-> <<"2", "0", "2", "3", "-", "0", "1", "-", "0", "2">>,
       cases |-> <<<<"1">>>>],
      [start_date |-> <<"2", "0", "2", "2", "-", "1", "2", "-", "3", "1">>],
      [start_date |-> <<"2", "0", "2", "3", "-", "0", "5", "-", "0", "1">>,
       cases |-> <<<<"2">>>>],
      [start_date |-> <<"2", "0", "2", "3", "-", "0", "2", "-", "3", "0">>,
       end_date |-> <<"2", "0", "2", "3", "-", "0", "3", "-", "0", "1">>,
       cases |-> <<<<"2">>>>],
      [start_date |-> <<"2", "0", "2", "3", "-", "0", "7", "-", "0", "1">>,
       end_date |-> <<"2", "0", "2", "3", "-", "0", "7", "-", "0", "2">>,
       cases |-> <<<<"8">>, <<>>>>],
      [start_date |-> <<"2", "0", "2", "4", "-", "2", "-", "2", "9">>,
       end_date |-> <<"2", "0", "2", "4", "-", "0", "3", "-", "0", "1">>,
       cases |-> <<<<"1", "0">>, <<"a", "1">>, <<"9">>, <<"A", "2">>, <<"8">>>>],
      [end_date |-> <<"2", "0", "2", "3", "-", "0", "3", "-", "0", "1">>,
       cases |-> <<<<"2">>>>] }

\* The "voc_events" object whose i-th member is the i-th source event
FeedOf(events) ==
    [i \in 1..Len(events) |-> [name |-> EventName(i), event |-> events[i]]]

Feeds == {FeedOf(es) : es \in UNION {[1..n -> SourceEvents] : n \in 0..MaxFeedEvents}}

\* urlopen failing, json.loads failing, a document without "voc_events", or a feed
UrlSources ==
    {[kind |-> "urlerror"], [kind |-> "jsonerror"],
     [kind |-> "json", doc |-> [error |-> "not found"]]}
      \cup {[kind |-> "json", doc |-> [voc_events |-> f]] : f \in Feeds}

----------------------------------------------------------------------------
(* A run of the program *)

Init ==
    /\ WheelIdle /\ RegistryIdle /\ RunIdle
    /\ arguments \in ArgumentSets
    /\ today \in Todays

\* The process ends with an uncaught exception
Crash ==
    /\ pc' = "crashed"
    /\ exit_status' = UncaughtExitStatus

\* main, the branch of load_yaml_file
MainLoadYaml ==
    /\ pc = "start"
    /\ SelectedLoader(arguments) = "yaml"
    /\ \E src \in YamlSources :
          \E r \in {LoadYamlFileReturn(calendar, src)} :
              /\ source' = src
              /\ calendar' = r.calendar
              /\ loaded' = [by |-> "yaml", ret |-> r.ret, error |-> "none", error_at |-> 0,
                            propagated |-> FALSE, generate_output |-> GenerateOutput(r.ret)]
    /\ pc' = "loaded"
    /\ UNCHANGED <<wheelVars, registryVars, arguments, today, reads, gantt_project,
                   event_index, svg_written, result, exit_status>>

\* main, the branch of load_json_url
MainLoadUrl ==
    /\ pc = "start"
    /\ SelectedLoader(arguments) = "url"
    /\ \E src \in UrlSources :
          \E r \in {LoadJsonUrlReturn(calendar, src, today)} :
              /\ source' = src
              /\ calendar' = r.calendar
              /\ reads' = r.reads
              /\ loaded' = [by |-> "url", ret |-> r.ret, error |-> r.error,
                            error_at |-> r.error_at, propagated |-> r.propagated,
                            generate_output |-> ~r.propagated /\ GenerateOutput(r.ret)]
              /\ IF r.propagated
                 THEN Crash
                 ELSE pc' = "loaded" /\ UNCHANGED exit_status
    /\ UNCHANGED <<wheelVars, registryVars, arguments, today, gantt_project,
                   event_index, svg_written, result>>

\* main, the branch that has no loader to call
MainNoLoader ==
    /\ pc = "start"
    /\ SelectedLoader(arguments) = "none"
    /\ pc' = "loaded"
    /\ UNCHANGED <<wheelVars, registryVars, arguments, today, source, reads, calendar,
                   loaded, gantt_project, event_index, svg_written, result, exit_status>>

\* main without generate_output: return False
MainReturnFalse ==
    /\ pc = "loaded"
    /\ ~loaded.generate_output
    /\ result' = FALSE
    /\ pc' = "returned"
    /\ UNCHANGED <<wheelVars, registryVars, arguments, today, source, reads, calendar,
                   loaded, gantt_project, event_index, svg_written, exit_status>>

\* main with generate_output: gantt.Project(name='C3VOC'), and the ColourWheel() that
\* create_calendar starts with
MainCreateProject ==
    /\ pc = "loaded"
    /\ loaded.generate_output
    /\ gantt_project' = [created |-> TRUE, tasks |-> <<>>]
    /\ list_iterator' = [list_iterator EXCEPT ![1] = NewListIterator]
    /\ drawn' = [drawn EXCEPT ![1] = <<>>]
    /\ event_index' = 0
    /\ pc' = "build"
    /\ UNCHANGED <<wheel_raised, registryVars, arguments, today, source, reads, calendar,
                   loaded, svg_written, result, exit_status>>

\* One turn of the loop of create_calendar
CreateCalendarStep ==
    /\ pc = "build"
    /\ event_index < Len(calendar)
    /\ \E event_name \in {calendar[event_index + 1].name},
          event_details \in {calendar[event_index + 1].details},
          colour \in {ColourWheelNext(list_iterator[1])} :
       \E reg \in {CreateResourcesFromEvent(Registry(resources, next_object, registered),
                                            event_details)} :
       \E made \in {CreateEventAsGanttTask(reg.resources, event_name, event_details,
                                           colour.colour)} :
           /\ resources' = reg.resources
           /\ next_object' = reg.next_object
           /\ registered' = reg.registered
           /\ list_iterator' = [list_iterator EXCEPT ![1] = colour.it]
           /\ drawn' = [drawn EXCEPT ![1] = IF colour.raised THEN @ ELSE Append(@, colour.colour)]
           /\ wheel_raised' = colour.raised
           /\ lookups' = IF colour.raised THEN lookups
                         ELSE lookups \o [j \in 1..Len(made.lookups) |->
                                            [name |-> made.lookups[j].name,
                                             hit |-> made.lookups[j].hit,
                                             after |-> Len(reg.registered)]]
           /\ IF colour.raised \/ made.error # "none"
              THEN Crash /\ UNCHANGED <<gantt_project, event_index>>
              ELSE /\ gantt_project' = [gantt_project EXCEPT !.tasks = Append(@, made.task)]
                   /\ event_index' = event_index + 1
                   /\ UNCHANGED <<pc, exit_status>>
    /\ UNCHANGED <<arguments, today, source, reads, calendar, loaded, svg_written, result>>

\* export_calendar(arguments.calendar_svg_file.strip()) and return True; None.strip()
\* is an AttributeError, and the renderer may fail
MainExport ==
    /\ pc = "build"
    /\ event_index = Len(calendar)
    /\ IF ~arguments.calendar_svg_file.given
       THEN Crash /\ UNCHANGED <<svg_written, result>>
       ELSE \E rendered \in BOOLEAN :
               /\ svg_written' = TRUE
               /\ IF rendered
                  THEN result' = TRUE /\ pc' = "returned" /\ UNCHANGED exit_status
                  ELSE Crash /\ UNCHANGED result
    /\ UNCHANGED <<wheelVars, registryVars, arguments, today, source, reads, calendar,
                   loaded, gantt_project, event_index>>

\* exit(result)
Exit ==
    /\ pc = "returned"
    /\ exit_status' = ExitStatus(result)
    /\ pc' = "exited"
    /\ UNCHANGED <<wheelVars, registryVars, arguments, today, source, reads, calendar,
                   loaded, gantt_project, event_index, svg_written, result>>

Next ==
    \/ MainLoadYaml
    \/ MainLoadUrl
    \/ MainNoLoader
    \/ MainReturnFalse
    \/ MainCreateProject
    \/ CreateCalendarStep
    \/ MainExport
    \/ Exit

Spec == Init /\ [][Next]_vars

----------------------------------------------------------------------------
(* The remote feed loader: the year filter, the case buckets, the return value *)

\* The loader was given a document with a "voc_events" object
HasFeed ==
    /\ loaded.by = "url"
    /\ source.kind = "json"
    /\ "voc_events" \in DOMAIN source.doc

\* The start_date of a source event is a date on or after January 1 of the current year
StartsThisYear(source_event) ==
    /\ "start_date" \in DOMAIN source_event
    /\ StrpTime(source_event.start_date).ok
    /\ DateGE(StrpTime(source_event.start_date).date, Date(today.year, 1, 1))

\* The details stored in the schedule map under a name
StoredDetails(name) ==
    calendar[CHOOSE i \in 1..Len(calendar) : calendar[i].name = name].details

\* The i-th source event was handled by the loop and raised nothing
HandledCleanly(i) == loaded.error_at = 0 \/ i < loaded.error_at

\* C3: a source event is stored in the schedule map iff its start_date is on or after
\* January 1 of the current year; an earlier one leaves the map without it, and its
\* end_date and cases are never read.  The equivalence is stated of the events the loop
\* handles without an exception; an event at which the load is abandoned is not stored.
C3_YearFilter ==
    HasFeed =>
      /\ DictNames(calendar) \subseteq {source.doc.voc_events[i].name :
                                           i \in 1..Len(source.doc.voc_events)}
      /\ \A i \in 1..Len(source.doc.voc_events) :
            LET e == source.doc.voc_events[i]
            IN  /\ HandledCleanly(i) =>
                      (e.name \in DictNames(calendar) <=> StartsThisYear(e.event))
                /\ e.name \in DictNames(calendar) => StartsThisYear(e.event)
                /\ ~StartsThisYear(e.event) =>
                      /\ <<e.name, "end_date">> \notin reads
                      /\ <<e.name, "cases">> \notin reads

\* In 2023 a feed of an event starting 2023-01-01 and one starting 2022-12-31: the first
\* is stored, the second is not and only its start_date was read
C3_Witness ==
    /\ HasFeed
    /\ today.year = 2023
    /\ loaded.error = "none"
    /\ Len(source.doc.voc_events) = 2
    /\ source.doc.voc_events[1].event.start_date = <<"2", "0", "2", "3", "-", "0", "1", "-", "0", "1">>
    /\ source.doc.voc_events[2].event.start_date = <<"2", "0", "2", "2", "-", "1", "2", "-", "3", "1">>
    /\ "end_date" \in DOMAIN source.doc.voc_events[2].event
    /\ DictNames(calendar) = {EventName(1)}
    /\ reads = {<<EventName(1), "start_date">>, <<EventName(1), "end_date">>,
                <<EventName(1), "cases">>, <<EventName(2), "start_date">>}

\* The entries of a list that satisfy a test, in order, each rewritten
IsAudioCase(c) == c \notin RoomDigits /\ Len(c) > 0 /\ c[1] = "A"

IsRoomCase(c) == ~IsAudioCase(c)

RoomName(c) == IF c \in RoomDigits THEN <<"S">> \o c ELSE Upper(c)

ExpectedRoomCases(cases) ==
    LET kept == SelectSeq(cases, IsRoomCase)
    IN  [j \in 1..Len(kept) |-> RoomName(kept[j])]

ExpectedAudioCases(cases) ==
    LET kept == SelectSeq(cases, IsAudioCase)
    IN  [j \in 1..Len(kept) |-> Upper(kept[j])]

\* C4: the cases of every event kept in the schedule map are split over the two lists,
\* each entry in exactly one, in input order: "1".."8" to the room list as "S" + digit,
\* else a case starting with "A" to the audio list upper-cased, else to the room list
\* upper-cased.
C4_CaseBuckets ==
    HasFeed =>
      \A i \in 1..Len(source.doc.voc_events) :
         LET e == source.doc.voc_events[i]
         IN  e.name \in DictNames(calendar) =>
               /\ StoredDetails(e.name).room_cases = ExpectedRoomCases(e.event.cases)
               /\ StoredDetails(e.name).audio_cases = ExpectedAudioCases(e.event.cases)
               /\ Len(StoredDetails(e.name).room_cases) + Len(StoredDetails(e.name).audio_cases)
                     = Len(e.event.cases)
               /\ e.event.cases = <<<<"3">>, <<"A", "1">>, <<"f", "o", "o">>>> =>
                     /\ StoredDetails(e.name).room_cases = <<<<"S", "3">>, <<"F", "O", "O">>>>
                     /\ StoredDetails(e.name).audio_cases = <<<<"A", "1">>>>

\* The cases "10", "a1", "9", "A2", "8" of a kept event: rooms "10", "A1", "9", "S8",
\* audio "A2"
C4_Witness ==
    /\ HasFeed
    /\ Len(calendar) = 1
    /\ source.doc.voc_events[1].event.cases
          = <<<<"1", "0">>, <<"a", "1">>, <<"9">>, <<"A", "2">>, <<"8">>>>
    /\ calendar[1].details.room_cases
          = <<<<"1", "0">>, <<"A", "1">>, <<"9">>, <<"S", "8">>>>
    /\ calendar[1].details.audio_cases = <<<<"A", "2">>>>

\* C5: load_json_url returns True iff nothing was raised while the feed was processed
\* and at least one event passed the year filter; whatever is raised is caught in the
\* loader and becomes the return value False.
C5_LoaderReturn ==
    loaded.by = "url" =>
      /\ ~loaded.propagated
      /\ loaded.ret <=>
            /\ loaded.error = "none"
            /\ HasFeed
            /\ \E i \in 1..Len(source.doc.voc_events) :
                  StartsThisYear(source.doc.voc_events[i].event)
      /\ loaded.error # "none" => (~loaded.ret /\ pc \in {"loaded", "returned", "exited"})

\* An error at the second event, after the first was stored: the loader returned False
\* and main went on to return
C5_Witness ==
    /\ loaded.by = "url"
    /\ loaded.error = "KeyError"
    /\ loaded.error_at = 2
    /\ Len(calendar) = 1
    /\ ~loaded.ret
    /\ pc = "returned"

----------------------------------------------------------------------------
(* main: failure, the exit status, the two sources *)

NeitherSupplied ==
    ~arguments.calendar_yaml_file.given /\ ~arguments.calendar_json_url.given

BothSupplied ==
    arguments.calendar_yaml_file.given /\ arguments.calendar_json_url.given

ExactlyOneSupplied ==
    arguments.calendar_yaml_file.given # arguments.calendar_json_url.given

\* C6: once the selected loader has returned failure, or with neither a file nor a URL
\* supplied, main builds nothing and exports nothing, and what it returns is False.
C6_FailureSkipsOutput ==
    (pc # "start" /\ (NeitherSupplied \/ (loaded.by # "none" /\ ~loaded.ret))) =>
      /\ pc \in {"loaded", "returned", "exited"}
      /\ ~gantt_project.created
      /\ gantt_project.tasks = <<>>
      /\ event_index = 0
      /\ ~svg_written
      /\ pc \in {"returned", "exited"} => ~result

\* A run whose file did not load has exited
C6_Witness ==
    /\ pc = "exited"
    /\ loaded.by = "yaml"
    /\ source.kind = "yamlerror"
    /\ ~result

\* C7: the exit status is non-zero on a failed run and zero on a successful one.
C7_ExitStatusSignalsFailure ==
    pc = "exited" => ((exit_status # 0) <=> ~result)

\* C8 as claimed: a chart is exported only when exactly one of -f and -u is supplied.
C8_ExportNeedsExactlyOne ==
    svg_written => ExactlyOneSupplied

\* C8: with neither -f nor -u supplied main exports nothing; with both supplied the run
\* is not refused: a non-empty -f value is loaded and the URL never fetched, the project
\* is built exactly when that file loaded, and a main that returned has exported the
\* chart exactly when that file loaded.
C8_NeitherOrFileFirst ==
    /\ NeitherSupplied => (~svg_written /\ ~gantt_project.created)
    /\ (BothSupplied /\ Truthy(arguments.calendar_yaml_file) /\ pc # "start") =>
          /\ loaded.by = "yaml"
          /\ source.kind \in {"oserror", "yamlerror", "yaml"}
          /\ reads = {}
          /\ pc # "loaded" => (gantt_project.created <=> loaded.ret)
          /\ pc \in {"returned", "exited"} => (svg_written <=> loaded.ret)

\* Both -f and -u supplied, and the chart was exported from the file
C8_Witness ==
    /\ BothSupplied
    /\ Truthy(arguments.calendar_json_url)
    /\ loaded.by = "yaml"
    /\ svg_written
    /\ pc = "exited"

----------------------------------------------------------------------------
(* The schedule builder: tasks, colours, resources *)

\* C9: the project holds one task per event handled, the k-th built from the k-th event
\* of the schedule map, with the days from start to end as duration and the colour
\* colours[k mod 20] (k from 0), one wheel being drawn from once per event; after
\* create_calendar that is one task per event of the map.
C9_TasksFollowCalendar ==
    gantt_project.created =>
      /\ Len(gantt_project.tasks) = event_index
      /\ event_index <= Len(calendar)
      /\ pc \in {"returned", "exited"} => Len(gantt_project.tasks) = Len(calendar)
      /\ pc # "crashed" => Len(drawn[1]) = event_index
      /\ \A k \in 1..Len(gantt_project.tasks) :
            LET task == gantt_project.tasks[k]
                details == calendar[k].details
            IN  /\ task.name = calendar[k].name
                /\ task.start = details.start
                /\ task.duration = ToOrdinal(details.end) - ToOrdinal(details.start)
                /\ (details.start = Date(2024, 6, 1) /\ details.end = Date(2024, 6, 4)) =>
                      task.duration = 3
                /\ task.color = colours[((k - 1) % 20) + 1]
                /\ task.color = drawn[1][k]

\* A calendar of more than 20 events was built: the 21st task has the first colour again
C9_Witness ==
    /\ pc = "returned"
    /\ Len(calendar) = LongLen
    /\ Len(gantt_project.tasks) = LongLen
    /\ gantt_project.tasks[1].duration = 3
    /\ gantt_project.tasks[2].duration = 2
    /\ gantt_project.tasks[3].duration = 3
    /\ gantt_project.tasks[21].color = "#28C3AB"
    /\ gantt_project.tasks[20].color = "#DA5800"

\* The resource names of an event: its room cases, then its audio cases
NamesOf(event_details) == RoomCasesOf(event_details) \o AudioCasesOf(event_details)

\* C10: every lookup of create_calendar finds its name, registered before it; the
\* resources of each task are the registry's objects for the room cases and then the
\* audio cases of its event, in list order, so that tasks naming the same resource hold
\* the same object.
C10_LookupsHit ==
    /\ \A i \in 1..Len(lookups) :
          /\ lookups[i].hit
          /\ \E j \in 1..lookups[i].after : registered[j].name = lookups[i].name
    /\ \A k \in 1..Len(gantt_project.tasks) :
          LET task == gantt_project.tasks[k]
              names == NamesOf(calendar[k].details)
          IN  /\ Len(task.resources) = Len(names)
              /\ \A j \in 1..Len(names) : task.resources[j] = resources[names[j]]
    /\ \A k1, k2 \in 1..Len(gantt_project.tasks) :
          \A j1 \in 1..Len(gantt_project.tasks[k1].resources),
             j2 \in 1..Len(gantt_project.tasks[k2].resources) :
             gantt_project.tasks[k1].resources[j1].name
                  = gantt_project.tasks[k2].resources[j2].name
               => gantt_project.tasks[k1].resources[j1].id
                    = gantt_project.tasks[k2].resources[j2].id

\* Two tasks whose events both name S1 hold the one S1 object; the second event also
\* named a resource the first did not
C10_Witness ==
    /\ Len(gantt_project.tasks) = 2
    /\ DOMAIN resources = {S1, S2, A1}
    /\ gantt_project.tasks[1].resources = <<resources[S1], resources[A1]>>
    /\ gantt_project.tasks[2].resources = <<resources[S1], resources[S2], resources[S1]>>
    /\ Len(lookups) = 5

=============================================================================
